---- MODULE Spec2Model ----
(***************************************************************************)
(* Model of src/src/transcription.py: one session of record_and_transcribe *)
(* (the voice-activity-gated recording loop, the capture callback that     *)
(* fills the frame buffer from the audio thread, the external cancel       *)
(* probe, the WAV file, the transcription dispatch and the status queue)   *)
(* and the pure function process_transcription.                            *)
(*                                                                         *)
(* Granularity.  The consumer (the function body) and the producer (the    *)
(* InputStream callback) share `buffer`; the consumer and the caller share *)
(* the value cancel_flag() returns.  The consumer is cut at every access   *)
(* to one of the two: line 57/60 (reads of buffer), the right-hand side of *)
(* line 61 (read of buffer), the store of line 61 (write of buffer), line  *)
(* 71 (first call of cancel_flag) and line 74 (second call).  Code between *)
(* two cuts touches only locals and is executed with the cut before it.    *)
(* Lines 57 and 60 are one step: the callback only appends, so once line   *)
(* 57 saw a full frame the prefix line 60 copies cannot change.            *)
(***************************************************************************)
EXTENDS Integers, Sequences, FiniteSets, TLC

(***************************************************************************)
(* Bounds of the model (the environment, not the program).                 *)
(***************************************************************************)
\* the speaker utters at most this many speech frames in one session
MaxSpeechFrames == 35
\* a run of non-speech frames after speech is at most this long
MaxSilentRun == 3
\* the capture device runs at most this many blocks ahead of the consumer
MaxBacklog == 2
\* length, in blocks, of the numbered test signal (signal = "ramp")
MaxRamp == 4

(***************************************************************************)
(* Program constants.                                                      *)
(***************************************************************************)
frame_duration == 30
buffer_duration == 300
DefaultSampleRate == 16000
DefaultSilenceDuration == 900
MsPerSecond == 1000

VARIABLES
  config,             \* the config argument (a record; given = FALSE is None)
  local_model,        \* "None", "given" (argument) or "created" (line 114)
  recording_thread,   \* TRUE iff a recording_thread handle was passed
  cancel,             \* what cancel_flag() returns when called now
  signal,             \* what the device captures: "zero" or "ramp"
  pc,                 \* the consumer's position in record_and_transcribe
  stream,             \* the InputStream: "new", "open" or "closed"
  buffer,             \* line 45: the list the name buffer is bound to
  frame,              \* line 60
  rest,               \* value of buffer[frame_size:] before it is stored
  recording,          \* line 46
  num_silent_frames,  \* line 47
  is_speech,          \* line 63
  exit_reason,        \* line 50
  audio_data,         \* line 86
  temp_file,          \* the WAV file: "none", "empty", "written", "removed"
  result,             \* lines 109 / 123
  status_queue,       \* the tags put on status_queue, in order
  returned,           \* the value record_and_transcribe returned
  thread_stops,       \* number of recording_thread.stop() calls
  dispatches,         \* the transcription calls made: "remote" / "local"
  fault_at,           \* the step that raised, "none" if none did
  probes,             \* history: what cancel_flag() returned in this cycle
  held,               \* history: cancel asserted since this cycle began
  pushed,             \* history: samples the callback pushed (ramp only)
  consumed,           \* history: samples removed as frames (ramp only)
  heard,              \* history: is_speech of each frame (ramp only)
  call_text,          \* argument of a direct process_transcription call
  processed           \* what that call returned (NoneVal before it)

vars == <<config, local_model, recording_thread, cancel, signal, pc, stream,
          buffer, frame, rest, recording, num_silent_frames, is_speech,
          exit_reason, audio_data, temp_file, result, status_queue, returned,
          thread_stops, dispatches, fault_at, probes, held, pushed,
          consumed, heard, call_text, processed>>

(***************************************************************************)
(* Text: a string is a sequence of one-character strings.                  *)
(***************************************************************************)
Chars == {"H", "O", "h", "o", ".", " "}

LowerChar(c) == IF c = "H" THEN "h" ELSE IF c = "O" THEN "o" ELSE c

\* str.lower()
Lower(s) == [i \in 1..Len(s) |-> LowerChar(s[i])]

\* str.endswith('.')
EndsWithPeriod(s) == Len(s) > 0 /\ s[Len(s)] = "."

RECURSIVE LStrip(_)
LStrip(s) == IF Len(s) > 0 /\ s[1] = " " THEN LStrip(Tail(s)) ELSE s

RECURSIVE RStrip(_)
RStrip(s) ==
  IF Len(s) > 0 /\ s[Len(s)] = " " THEN RStrip(SubSeq(s, 1, Len(s) - 1)) ELSE s

\* str.strip()
Strip(s) == RStrip(LStrip(s))

\* lines 18-19
StripPeriod(t, cfg) ==
  IF cfg.remove_trailing_period /\ EndsWithPeriod(t)
  THEN SubSeq(t, 1, Len(t) - 1) ELSE t

\* lines 20-21
AddSpace(t, cfg) == IF cfg.add_trailing_space THEN Append(t, " ") ELSE t

\* lines 22-23
RemoveCaps(t, cfg) == IF cfg.remove_capitalization THEN Lower(t) ELSE t

\* mutant of process_transcription: the space is appended before the period
\* is looked for
ProcessSpaceFirst(transcription, cfg) ==
  IF cfg.given
  THEN RemoveCaps(StripPeriod(AddSpace(transcription, cfg), cfg), cfg)
  ELSE transcription

\* lines 16-25; `if config` is false for None
process_transcription(transcription, cfg) ==
  IF cfg.given
  THEN RemoveCaps(AddSpace(StripPeriod(transcription, cfg), cfg), cfg)
  ELSE transcription

(***************************************************************************)
(* Values that may be None.                                                *)
(***************************************************************************)
NoneVal == [some |-> FALSE, text |-> <<>>]
Str(s) == [some |-> TRUE, text |-> s]
\* Python truthiness of a str-or-None
Truthy(v) == v.some /\ Len(v.text) > 0

(***************************************************************************)
(* Configuration (lines 38-49).                                            *)
(***************************************************************************)
BaseConfig ==
  [given |-> TRUE, sample_rate |-> 34, silence_duration |-> 30,
   print_to_terminal |-> FALSE, use_api |-> TRUE,
   remove_trailing_period |-> FALSE, add_trailing_space |-> FALSE,
   remove_capitalization |-> FALSE]

\* config = None
NoConfig == [BaseConfig EXCEPT !.given = FALSE]

\* sample rates whose frame is 1 and 2 samples long
SampleRates == {34, 67}
\* thresholds 0, 1, 1 (inexact division) and 2
SilenceDurations == {0, 30, 45, 60}

\* the configurations that vary what the recording loop reads
LoopConfigs ==
  {[BaseConfig EXCEPT !.sample_rate = sr, !.silence_duration = sd] :
     sr \in SampleRates, sd \in SilenceDurations}

\* the configurations that vary what the code after the loop reads
DispatchConfigs ==
  {[BaseConfig EXCEPT !.print_to_terminal = p, !.use_api = a] :
     p \in BOOLEAN, a \in BOOLEAN}

TextConfigs ==
  {[BaseConfig EXCEPT !.remove_trailing_period = r, !.add_trailing_space = s,
                      !.remove_capitalization = c] :
     r \in BOOLEAN, s \in BOOLEAN, c \in BOOLEAN}

\* the arguments of record_and_transcribe (line 37): each group varies the
\* arguments one part of the function reads and fixes the others
Arguments ==
  {[config |-> c, local_model |-> "None", recording_thread |-> t] :
     c \in LoopConfigs, t \in BOOLEAN}
  \cup {[config |-> c, local_model |-> m, recording_thread |-> FALSE] :
     c \in DispatchConfigs, m \in {"None", "given"}}
  \cup {[config |-> c, local_model |-> "None", recording_thread |-> FALSE] :
     c \in TextConfigs \cup {NoConfig}}

\* line 39
sample_rate == IF config.given THEN config.sample_rate ELSE DefaultSampleRate
\* line 42
silence_duration ==
  IF config.given THEN config.silence_duration ELSE DefaultSilenceDuration
\* line 48
num_buffer_frames == buffer_duration \div frame_duration
\* line 49
num_silence_frames == silence_duration \div frame_duration
\* sample_rate * frame_duration // 1000 (lines 52, 57, 60, 61)
frame_size == (sample_rate * frame_duration) \div MsPerSecond

\* what the remote service or the local model can answer
Texts == {<<>>, <<" ">>, <<"H", "o", ".">>, <<" ", "O", "h", ".", " ">>}

(***************************************************************************)
(* Positions.                                                              *)
(***************************************************************************)
LoopPcs == {"poll", "slice", "rebind", "stop", "reason"}
\* the loop ended by `break` (line 80)
Finalized ==
  pc \in {"closing", "array", "tmpfile", "wave", "transcribing", "dispatch",
          "remove", "print", "idle", "return"}
  \/ (pc \in {"except", "done"}
      /\ fault_at \notin {"start", "opened", "rebind"})

Log(h, s) == IF signal = "ramp" THEN h \o s ELSE h

(***************************************************************************)
(* Init: the state at the try of line 51.                                  *)
(***************************************************************************)
InitWith(args, sigs) ==
  /\ \E a \in args :
       /\ config = a.config
       /\ local_model = a.local_model
       /\ recording_thread = a.recording_thread
  /\ cancel \in BOOLEAN
  /\ signal \in sigs
  /\ pc = "start"
  /\ stream = "new"
  /\ buffer = <<>>
  /\ frame = <<>>
  /\ rest = <<>>
  /\ recording = <<>>
  /\ num_silent_frames = 0
  /\ is_speech = FALSE
  /\ exit_reason = "Unknown"
  /\ audio_data = <<>>
  /\ temp_file = "none"
  /\ result = NoneVal
  /\ status_queue = <<>>
  /\ returned = [done |-> FALSE, value |-> NoneVal]
  /\ thread_stops = 0
  /\ dispatches = <<>>
  /\ fault_at = "none"
  /\ probes = <<>>
  /\ held = FALSE
  /\ pushed = <<>>
  /\ consumed = <<>>
  /\ heard = <<>>

\* no direct call of process_transcription is in progress
NoCall == call_text = <<>> /\ processed = NoneVal

Init == InitWith(Arguments, {"zero", "ramp"}) /\ NoCall

(***************************************************************************)
(* The capture device and the caller.                                      *)
(***************************************************************************)
\* indata[:, 0] of one callback: blocksize = frame_size samples (line 52)
Block ==
  [i \in 1..frame_size |-> IF signal = "ramp" THEN Len(pushed) + i ELSE 0]

\* line 53, the callback: buffer.extend(indata[:, 0]) on the list the name
\* buffer is bound to.  Loading the name and extending the list are two
\* bytecodes; extending a list the consumer has meanwhile replaced gives the
\* state this action gives when it runs between SliceRest and Classify.
DeviceCallback ==
  /\ stream = "open"
  /\ Len(buffer) + frame_size <= MaxBacklog * frame_size
  /\ signal = "ramp" => Len(pushed) < MaxRamp * frame_size
  /\ buffer' = buffer \o Block
  /\ pushed' = Log(pushed, Block)
  /\ UNCHANGED <<config, local_model, recording_thread, cancel, signal, pc,
                 stream, frame, rest, recording, num_silent_frames, is_speech,
                 exit_reason, audio_data, temp_file, result, status_queue,
                 returned, thread_stops, dispatches, fault_at, probes, held,
                 consumed, heard, call_text, processed>>

\* the caller changes what cancel_flag() returns; the function does not call
\* cancel_flag() after line 74, so later changes are left out
SetCancel ==
  /\ pc \in LoopPcs \cup {"start", "opened"}
  /\ cancel' = ~cancel
  /\ held' = FALSE
  /\ UNCHANGED <<config, local_model, recording_thread, signal, pc, stream,
                 buffer, frame, rest, recording, num_silent_frames, is_speech,
                 exit_reason, audio_data, temp_file, result, status_queue,
                 returned, thread_stops, dispatches, fault_at, probes, pushed,
                 consumed, heard, call_text, processed>>

(***************************************************************************)
(* The recording loop (lines 52-80).                                       *)
(***************************************************************************)
\* line 52: the stream is opened and started
OpenStream ==
  /\ pc = "start"
  /\ pc' = "opened"
  /\ stream' = "open"
  /\ UNCHANGED <<config, local_model, recording_thread, cancel, signal, buffer,
                 frame, rest, recording, num_silent_frames, is_speech,
                 exit_reason, audio_data, temp_file, result, status_queue,
                 returned, thread_stops, dispatches, fault_at, probes, held,
                 pushed, consumed, heard, call_text, processed>>

\* lines 54-55; config['print_to_terminal'] raises when config is None
QueryDevice ==
  /\ pc = "opened"
  /\ pc' = IF config.given THEN "poll" ELSE "except"
  /\ fault_at' = IF config.given THEN fault_at ELSE "opened"
  /\ stream' = IF config.given THEN stream ELSE "closed"
  /\ UNCHANGED <<config, local_model, recording_thread, cancel, signal, buffer,
                 frame, rest, recording, num_silent_frames, is_speech,
                 exit_reason, audio_data, temp_file, result, status_queue,
                 returned, thread_stops, dispatches, probes, held, pushed,
                 consumed, heard, call_text, processed>>

\* lines 57-58: fewer than frame_size samples buffered, `continue`
WaitCycle ==
  /\ pc = "poll"
  /\ Len(buffer) < frame_size
  /\ UNCHANGED vars

\* lines 57, 60: a frame is buffered; frame = buffer[:frame_size]
TakeFrame ==
  /\ pc = "poll"
  /\ ~(Len(buffer) < frame_size)
  /\ frame' = SubSeq(buffer, 1, frame_size)
  /\ pc' = "slice"
  /\ probes' = <<>>
  /\ held' = cancel
  /\ UNCHANGED <<config, local_model, recording_thread, cancel, signal, stream,
                 buffer, rest, recording, num_silent_frames, is_speech,
                 exit_reason, audio_data, temp_file, result, status_queue,
                 returned, thread_stops, dispatches, fault_at, pushed,
                 consumed, heard, call_text, processed>>

\* line 61, right-hand side: the new list buffer[frame_size:]
SliceRest ==
  /\ pc = "slice"
  /\ rest' = SubSeq(buffer, frame_size + 1, Len(buffer))
  /\ pc' = "rebind"
  /\ UNCHANGED <<config, local_model, recording_thread, cancel, signal, stream,
                 buffer, frame, recording, num_silent_frames, is_speech,
                 exit_reason, audio_data, temp_file, result, status_queue,
                 returned, thread_stops, dispatches, fault_at, probes, held,
                 pushed, consumed, heard, call_text, processed>>

\* what vad.is_speech may answer for the next frame (the bounds above)
VadAnswers ==
  {s \in BOOLEAN :
     IF s THEN Len(recording) + frame_size <= MaxSpeechFrames * frame_size
          ELSE Len(recording) = 0 \/ num_silent_frames < MaxSilentRun}

\* mutant of RecordingAfter: every frame is recorded, speech or not
RecordingAfterEveryFrame(s) == recording \o frame

\* lines 64-65: recording after a frame classified s
RecordingAfter(s) == IF s THEN recording \o frame ELSE recording

\* mutant of SilentAfter: leading silence is counted too
SilentAfterCountsLeading(s) == IF s THEN 0 ELSE num_silent_frames + 1

\* mutant of SilentAfter: a speech frame does not reset the run
SilentAfterNoReset(s) ==
  IF s THEN num_silent_frames
  ELSE IF Len(recording) > 0 THEN num_silent_frames + 1
  ELSE num_silent_frames

\* lines 66-69: num_silent_frames after a frame classified s
SilentAfter(s) ==
  IF s THEN 0
  ELSE IF Len(recording) > 0 THEN num_silent_frames + 1
  ELSE num_silent_frames

\* line 61, the store, and lines 63-69
Classify ==
  /\ pc = "rebind"
  /\ buffer' = rest
  /\ consumed' = Log(consumed, frame)
  /\ \E s \in VadAnswers :
       /\ is_speech' = s
       /\ recording' = RecordingAfter(s)
       /\ num_silent_frames' = SilentAfter(s)
       /\ heard' = Log(heard, <<s>>)
  /\ pc' = "stop"
  /\ UNCHANGED <<config, local_model, recording_thread, cancel, signal, stream,
                 frame, rest, exit_reason, audio_data, temp_file, result,
                 status_queue, returned, thread_stops, dispatches, fault_at,
                 probes, held, pushed, call_text, processed>>

\* mutant of SilenceReached: one frame early
SilenceReachedEarly == num_silent_frames + 1 >= num_silence_frames

\* mutant of SilenceReached: > instead of >=
SilenceReachedStrict == num_silent_frames > num_silence_frames

\* line 71, left operand
SilenceReached == num_silent_frames >= num_silence_frames

\* line 71: the stop condition when cancel_flag(), if called, answers c
StopCondition(c) == SilenceReached \/ c

\* mutant of TooShort: the minimum is one frame instead of one second
TooShortByFrame == Len(recording) < frame_size

\* mutant of TooShort: the comparison is inverted
TooShortInverted == Len(recording) >= sample_rate

\* mutant of TooShort: an asserted cancel flag overrides the minimum
TooShortUnlessCancelled == Len(recording) < sample_rate /\ ~cancel

\* line 72
TooShort == Len(recording) < sample_rate

\* lines 71-73: `or` calls cancel_flag() only when the left operand is false
StopCheck ==
  /\ pc = "stop"
  /\ probes' = IF SilenceReached THEN probes ELSE Append(probes, cancel)
  /\ pc' = IF StopCondition(cancel) /\ ~TooShort THEN "reason" ELSE "poll"
  /\ UNCHANGED <<config, local_model, recording_thread, cancel, signal, stream,
                 buffer, frame, rest, recording, num_silent_frames, is_speech,
                 exit_reason, audio_data, temp_file, result, status_queue,
                 returned, thread_stops, dispatches, fault_at, held, pushed,
                 consumed, heard, call_text, processed>>

\* mutant of ReasonAfter: line 75 is missing
ReasonAfterNoHotkey(c) == IF SilenceReached THEN "Silence" ELSE exit_reason

\* mutant of ReasonAfter: line 76 is an elif of line 74
ReasonAfterCancelFirst(c) ==
  IF c THEN "Hotkey pressed"
  ELSE IF SilenceReached THEN "Silence"
  ELSE exit_reason

\* lines 74-79: exit_reason after cancel_flag() answered c
ReasonAfter(c) ==
  IF SilenceReached THEN "Silence"
  ELSE IF c THEN "Hotkey pressed"
  ELSE exit_reason

\* mutant of StopsAfter: the thread is stopped whatever ended the loop
StopsAfterAnyReason ==
  IF recording_thread THEN thread_stops + 1 ELSE thread_stops

\* lines 76-78: recording_thread.stop()
StopsAfter ==
  IF SilenceReached /\ recording_thread THEN thread_stops + 1
  ELSE thread_stops

\* lines 74-80
Reason ==
  /\ pc = "reason"
  /\ probes' = Append(probes, cancel)
  /\ exit_reason' = ReasonAfter(cancel)
  /\ thread_stops' = StopsAfter
  /\ pc' = "closing"
  /\ UNCHANGED <<config, local_model, recording_thread, cancel, signal, stream,
                 buffer, frame, rest, recording, num_silent_frames, is_speech,
                 audio_data, temp_file, result, status_queue, returned,
                 dispatches, fault_at, held, pushed, consumed, heard,
                 call_text, processed>>

(***************************************************************************)
(* After the loop (lines 86-135) and the handler (lines 137-139).          *)
(***************************************************************************)
\* the `with` of line 52 is left after `break`: the stream is closed
CloseStream ==
  /\ pc = "closing"
  /\ stream' = "closed"
  /\ pc' = "array"
  /\ UNCHANGED <<config, local_model, recording_thread, cancel, signal, buffer,
                 frame, rest, recording, num_silent_frames, is_speech,
                 exit_reason, audio_data, temp_file, result, status_queue,
                 returned, thread_stops, dispatches, fault_at, probes, held,
                 pushed, consumed, heard, call_text, processed>>

\* lines 86-87
MakeArray ==
  /\ pc = "array"
  /\ audio_data' = recording
  /\ pc' = "tmpfile"
  /\ UNCHANGED <<config, local_model, recording_thread, cancel, signal, stream,
                 buffer, frame, rest, recording, num_silent_frames, is_speech,
                 exit_reason, temp_file, result, status_queue, returned,
                 thread_stops, dispatches, fault_at, probes, held, pushed,
                 consumed, heard, call_text, processed>>

\* line 90: NamedTemporaryFile(suffix='.wav', delete=False)
CreateTempFile ==
  /\ pc = "tmpfile"
  /\ temp_file' = "empty"
  /\ pc' = "wave"
  /\ UNCHANGED <<config, local_model, recording_thread, cancel, signal, stream,
                 buffer, frame, rest, recording, num_silent_frames, is_speech,
                 exit_reason, audio_data, result, status_queue, returned,
                 thread_stops, dispatches, fault_at, probes, held, pushed,
                 consumed, heard, call_text, processed>>

\* lines 91-95
WriteWave ==
  /\ pc = "wave"
  /\ temp_file' = "written"
  /\ pc' = "transcribing"
  /\ UNCHANGED <<config, local_model, recording_thread, cancel, signal, stream,
                 buffer, frame, rest, recording, num_silent_frames, is_speech,
                 exit_reason, audio_data, result, status_queue, returned,
                 thread_stops, dispatches, fault_at, probes, held, pushed,
                 consumed, heard, call_text, processed>>

\* lines 97-98
PutTranscribing ==
  /\ pc = "transcribing"
  /\ status_queue' = Append(status_queue, "transcribing")
  /\ pc' = "dispatch"
  /\ UNCHANGED <<config, local_model, recording_thread, cancel, signal, stream,
                 buffer, frame, rest, recording, num_silent_frames, is_speech,
                 exit_reason, audio_data, temp_file, result, returned,
                 thread_stops, dispatches, fault_at, probes, held, pushed,
                 consumed, heard, call_text, processed>>

\* what response.get('text') can be: absent (None) or a string
RemoteAnswers == {NoneVal} \cup {Str(t) : t \in Texts}

\* what ''.join(segment texts) can be
LocalAnswers == {Str(t) : t \in Texts}

\* lines 101-109
RemoteTranscribe ==
  /\ pc = "dispatch"
  /\ config.use_api
  /\ dispatches' = Append(dispatches, "remote")
  /\ result' \in RemoteAnswers
  /\ pc' = "remove"
  /\ UNCHANGED <<config, local_model, recording_thread, cancel, signal, stream,
                 buffer, frame, rest, recording, num_silent_frames, is_speech,
                 exit_reason, audio_data, temp_file, status_queue, returned,
                 thread_stops, fault_at, probes, held, pushed, consumed, heard,
                 call_text, processed>>

\* lines 111-115
CreateLocalModel ==
  /\ pc = "dispatch"
  /\ ~config.use_api
  /\ local_model = "None"
  /\ local_model' = "created"
  /\ UNCHANGED <<config, recording_thread, cancel, signal, pc, stream, buffer,
                 frame, rest, recording, num_silent_frames, is_speech,
                 exit_reason, audio_data, temp_file, result, status_queue,
                 returned, thread_stops, dispatches, fault_at, probes, held,
                 pushed, consumed, heard, call_text, processed>>

\* lines 116-123
LocalTranscribe ==
  /\ pc = "dispatch"
  /\ ~config.use_api
  /\ local_model # "None"
  /\ dispatches' = Append(dispatches, "local")
  /\ result' \in LocalAnswers
  /\ pc' = "remove"
  /\ UNCHANGED <<config, local_model, recording_thread, cancel, signal, stream,
                 buffer, frame, rest, recording, num_silent_frames, is_speech,
                 exit_reason, audio_data, temp_file, status_queue, returned,
                 thread_stops, fault_at, probes, held, pushed, consumed, heard,
                 call_text, processed>>

\* mutant of RemoveTempFile: the file is left in place
RemoveTempFileSkipped ==
  /\ pc = "remove"
  /\ pc' = "print"
  /\ UNCHANGED <<temp_file, config, local_model, recording_thread, cancel,
                 signal, stream, buffer, frame, rest, recording,
                 num_silent_frames, is_speech, exit_reason, audio_data, result,
                 status_queue, returned, thread_stops, dispatches, fault_at,
                 probes, held, pushed, consumed, heard, call_text, processed>>

\* line 126
RemoveTempFile ==
  /\ pc = "remove"
  /\ temp_file' = "removed"
  /\ pc' = "print"
  /\ UNCHANGED <<config, local_model, recording_thread, cancel, signal, stream,
                 buffer, frame, rest, recording, num_silent_frames, is_speech,
                 exit_reason, audio_data, result, status_queue, returned,
                 thread_stops, dispatches, fault_at, probes, held, pushed,
                 consumed, heard, call_text, processed>>

\* line 132: result.strip() is evaluated only when print_to_terminal is set,
\* and raises AttributeError when result is None
PrintRaises == config.print_to_terminal /\ ~result.some

PrintTranscription ==
  /\ pc = "print"
  /\ pc' = IF PrintRaises THEN "except" ELSE "idle"
  /\ fault_at' = IF PrintRaises THEN "print" ELSE fault_at
  /\ UNCHANGED <<config, local_model, recording_thread, cancel, signal, stream,
                 buffer, frame, rest, recording, num_silent_frames, is_speech,
                 exit_reason, audio_data, temp_file, result, status_queue,
                 returned, thread_stops, dispatches, probes, held, pushed,
                 consumed, heard, call_text, processed>>

\* line 133
PutIdle ==
  /\ pc = "idle"
  /\ status_queue' = Append(status_queue, "idle")
  /\ pc' = "return"
  /\ UNCHANGED <<config, local_model, recording_thread, cancel, signal, stream,
                 buffer, frame, rest, recording, num_silent_frames, is_speech,
                 exit_reason, audio_data, temp_file, result, returned,
                 thread_stops, dispatches, fault_at, probes, held, pushed,
                 consumed, heard, call_text, processed>>

\* line 135
ReturnValue ==
  IF Truthy(result)
  THEN Str(process_transcription(Strip(result.text), config))
  ELSE Str(<<>>)

Return ==
  /\ pc = "return"
  /\ returned' = [done |-> TRUE, value |-> ReturnValue]
  /\ pc' = "done"
  /\ UNCHANGED <<config, local_model, recording_thread, cancel, signal, stream,
                 buffer, frame, rest, recording, num_silent_frames, is_speech,
                 exit_reason, audio_data, temp_file, result, status_queue,
                 thread_stops, dispatches, fault_at, probes, held, pushed,
                 consumed, heard, call_text, processed>>

\* the steps whose calls can raise: InputStream (52), query_devices (54),
\* vad.is_speech (63), the stream's close, NamedTemporaryFile (90), wave
\* (91-95), open / openai.Audio.transcribe / create_local_model /
\* local_model.transcribe (103-123), os.remove (126)
RaisingPcs ==
  {"start", "opened", "rebind", "closing", "tmpfile", "wave", "dispatch",
   "remove"}

\* a call of the step at pc raises; an exception leaving the `with` of line
\* 52 closes the stream; line 63 runs after the store of line 61
Raise ==
  /\ pc \in RaisingPcs
  /\ fault_at' = pc
  /\ pc' = "except"
  /\ stream' = IF stream = "open" THEN "closed" ELSE stream
  /\ buffer' = IF pc = "rebind" THEN rest ELSE buffer
  /\ consumed' = IF pc = "rebind" THEN Log(consumed, frame) ELSE consumed
  /\ UNCHANGED <<config, local_model, recording_thread, cancel, signal, frame,
                 rest, recording, num_silent_frames, is_speech, exit_reason,
                 audio_data, temp_file, result, status_queue, returned,
                 thread_stops, dispatches, probes, held, pushed, heard,
                 call_text, processed>>

\* mutant of HandlerPuts: the handler reports nothing
HandlerPutsNothing == <<>>

\* what the handler puts on the queue (line 139)
HandlerPuts == <<"error">>

\* lines 137-139; the function then returns None
Except ==
  /\ pc = "except"
  /\ status_queue' = status_queue \o HandlerPuts
  /\ returned' = [done |-> TRUE, value |-> NoneVal]
  /\ pc' = "done"
  /\ UNCHANGED <<config, local_model, recording_thread, cancel, signal, stream,
                 buffer, frame, rest, recording, num_silent_frames, is_speech,
                 exit_reason, audio_data, temp_file, result, thread_stops,
                 dispatches, fault_at, probes, held, pushed, consumed, heard,
                 call_text, processed>>

Next ==
  \/ DeviceCallback
  \/ SetCancel
  \/ OpenStream
  \/ QueryDevice
  \/ WaitCycle
  \/ TakeFrame
  \/ SliceRest
  \/ Classify
  \/ StopCheck
  \/ Reason
  \/ CloseStream
  \/ MakeArray
  \/ CreateTempFile
  \/ WriteWave
  \/ PutTranscribing
  \/ RemoteTranscribe
  \/ CreateLocalModel
  \/ LocalTranscribe
  \/ RemoveTempFile
  \/ PrintTranscription
  \/ PutIdle
  \/ Return
  \/ Raise
  \/ Except

Spec == Init /\ [][Next]_vars

(***************************************************************************)
(* Fairness: the thread running record_and_transcribe keeps running and    *)
(* the opened device keeps delivering blocks.  No call is obliged to       *)
(* raise and the caller is not obliged to touch the cancel flag.           *)
(***************************************************************************)
Session ==
  \/ OpenStream \/ QueryDevice \/ TakeFrame \/ SliceRest \/ Classify
  \/ StopCheck \/ Reason \/ CloseStream \/ MakeArray \/ CreateTempFile
  \/ WriteWave \/ PutTranscribing \/ RemoteTranscribe \/ CreateLocalModel
  \/ LocalTranscribe \/ RemoveTempFile \/ PrintTranscription \/ PutIdle
  \/ Return \/ Except

LiveArguments ==
  {[config |-> [BaseConfig EXCEPT !.silence_duration = sd, !.use_api = a],
    local_model |-> "None", recording_thread |-> TRUE] :
     sd \in {30, 60}, a \in BOOLEAN}

LiveInit == InitWith(LiveArguments, {"zero"}) /\ NoCall

LiveSpec ==
  LiveInit /\ [][Next]_vars /\ WF_vars(Session) /\ WF_vars(DeviceCallback)

(***************************************************************************)
(* The pure computations on their own: the threshold of line 49 over a     *)
(* range of silence durations, and process_transcription (lines 16-25)     *)
(* called directly on every short text.                                    *)
(***************************************************************************)
MaxSilenceMs == 100
MaxTextLen == 3

\* every text of at most n characters
TextsUpTo(n) == UNION {[1..k -> Chars] : k \in 0..n}

\* sessions that differ in config['silence_duration'] only
ThresholdArguments ==
  {[config |-> [BaseConfig EXCEPT !.silence_duration = sd],
    local_model |-> "None", recording_thread |-> FALSE] :
     sd \in 0..MaxSilenceMs}

\* the config argument of process_transcription: every combination of the
\* three options, and None
TextArguments ==
  {[config |-> c, local_model |-> "None", recording_thread |-> FALSE] :
     c \in TextConfigs \cup {NoConfig}}

PureInit ==
  \/ InitWith(ThresholdArguments, {"zero"}) /\ NoCall
  \/ /\ InitWith(TextArguments, {"zero"})
     /\ call_text \in TextsUpTo(MaxTextLen)
     /\ processed = NoneVal

\* line 16: a call process_transcription(call_text, config)
ProcessCall ==
  /\ ~processed.some
  /\ processed' = Str(process_transcription(call_text, config))
  /\ UNCHANGED <<config, local_model, recording_thread, cancel, signal, pc,
                 stream, buffer, frame, rest, recording, num_silent_frames,
                 is_speech, exit_reason, audio_data, temp_file, result,
                 status_queue, returned, thread_stops, dispatches, fault_at,
                 probes, held, pushed, consumed, heard, call_text>>

PureNext == OpenStream \/ ProcessCall

PureSpec == PureInit /\ [][PureNext]_vars

(***************************************************************************)
(* Properties.                                                             *)
(***************************************************************************)
Count(q, x) == Cardinality({i \in 1..Len(q) : q[i] = x})

\* no call of cancel_flag() in the current cycle answered True
NoProbeTrue == \A i \in 1..Len(probes) : ~probes[i]

\* cancel_flag() answered True at line 74
ProbedTrueAt74 == Len(probes) > 0 /\ probes[Len(probes)]

\* len(recording) before the frame of the current cycle was classified
PrevLen == Len(recording) - (IF is_speech THEN Len(frame) ELSE 0)

\* the loop was left, by break or by an exception
LoopEnded == pc \notin LoopPcs \cup {"start", "opened"}

\* C1: when no cancel_flag() call of the finalizing cycle answered True (so
\* in particular when cancel is never asserted), the loop finalizes with the
\* silence run-length equal to num_silence_frames, never less, never more.
C1_FinalizesAtExactThreshold ==
  (pc = "reason" \/ Finalized) /\ NoProbeTrue =>
     num_silent_frames = num_silence_frames

C1_Witness ==
  /\ pc = "closing"
  /\ NoProbeTrue
  /\ ~cancel
  /\ num_silence_frames = 2
  /\ num_silent_frames = 2
  /\ exit_reason = "Silence"

\* C2: the loop has not finalized while recording holds fewer than
\* sample_rate samples, whatever the frames and the cancel flag were.
C2_NeverFinalizesUnderMinimum ==
  pc = "reason" \/ Finalized => Len(recording) >= sample_rate

\* a stop condition (silence and cancel) was discarded: the loop polls again
C2_Witness ==
  /\ pc = "poll"
  /\ Len(recording) > 0
  /\ Len(recording) < sample_rate
  /\ num_silence_frames > 0
  /\ num_silent_frames >= num_silence_frames
  /\ held

\* C3: while recording is empty the silence run-length is 0 and the loop
\* has not finalized, for every threshold (0 included).
C3_LeadingSilenceNotCounted ==
  Len(recording) = 0 =>
     num_silent_frames = 0 /\ pc # "reason" /\ ~Finalized

\* a non-speech frame was consumed before any speech, threshold 0
C3_Witness ==
  /\ pc = "stop"
  /\ ~is_speech
  /\ Len(recording) = 0
  /\ Len(frame) > 0
  /\ num_silence_frames = 0

C6_CancelEndsLoop == <>[]cancel => <>LoopEnded

\* C6 as amended: once cancel is asserted and held and recording holds at
\* least sample_rate samples, the loop eventually ends.
C6_CancelEndsLoopOnceLongEnough ==
  <>[](cancel /\ Len(recording) >= sample_rate) => <>LoopEnded

C6_Witness ==
  /\ pc = "array"
  /\ cancel
  /\ held
  /\ Len(recording) >= sample_rate
  /\ exit_reason = "Hotkey pressed"

\* C7: no sample is lost, duplicated or reordered between the callback and
\* the consumer: the frames removed so far followed by the buffer are the
\* samples pushed so far.
C7_BufferIsFifo == signal = "ramp" => consumed \o buffer = pushed

\* C8: a session in which a step raised has put exactly one error status,
\* as the last status, has put no idle, and returned no transcript.
C8_FaultGivesOneError ==
  returned.done /\ fault_at # "none" =>
     /\ Count(status_queue, "error") = 1
     /\ status_queue[Len(status_queue)] = "error"
     /\ Count(status_queue, "idle") = 0
     /\ returned.value = NoneVal

C8_Witness ==
  /\ returned.done
  /\ fault_at = "dispatch"
  /\ status_queue = <<"transcribing", "error">>

\* C9: after record_and_transcribe returned, the temporary WAV file does
\* not exist, on the success path and on every faulted path.
C9_TempFileGone == returned.done => temp_file \in {"none", "removed"}

\* C10: a remote response without text ends the session normally: idle is
\* put, error is not, and the empty string is returned.
C10_AbsentTextGivesEmpty ==
  /\ returned.done
  /\ dispatches = <<"remote">>
  /\ ~result.some
  /\ fault_at \in {"none", "print"}
  => /\ Count(status_queue, "idle") = 1
     /\ Count(status_queue, "error") = 0
     /\ returned.value = Str(<<>>)

\* the reference for C12, position by position: the characters kept, then
\* the appended space, each lowered if asked
Reference(t, cfg) ==
  LET n == Len(t)
      cut == cfg.remove_trailing_period /\ n > 0 /\ t[n] = "."
      kept == IF cut THEN n - 1 ELSE n
      total == kept + (IF cfg.add_trailing_space THEN 1 ELSE 0)
      at(i) == IF i <= kept THEN t[i] ELSE " "
  IN  [i \in 1..total |->
         IF cfg.remove_capitalization THEN LowerChar(at(i)) ELSE at(i)]

NoOption(cfg) ==
  \/ ~cfg.given
  \/ /\ ~cfg.remove_trailing_period
     /\ ~cfg.add_trailing_space
     /\ ~cfg.remove_capitalization

\* C11: the threshold num_silence_frames is silence_duration / frame_duration
\* when the division is exact and the ceiling of the quotient otherwise.
C11_ThresholdIsCeiling ==
  pc = "opened" =>
    IF silence_duration % frame_duration = 0
    THEN num_silence_frames * frame_duration = silence_duration
    ELSE /\ (num_silence_frames - 1) * frame_duration < silence_duration
         /\ silence_duration < num_silence_frames * frame_duration

\* C12: what process_transcription returns is the reference: one trailing
\* period removed if asked and present, then one space appended if asked,
\* then lowered if asked; with no option, or no config, the text comes back
\* unchanged, and so does it when processed again.
C12_MatchesReference ==
  processed.some =>
    /\ config.given => processed.text = Reference(call_text, config)
    /\ NoOption(config) =>
         /\ processed.text = call_text
         /\ process_transcription(processed.text, config) = processed.text

C12_Witness ==
  /\ processed = Str(<<"h", " ">>)
  /\ call_text = <<"H", ".">>
  /\ config.remove_trailing_period
  /\ config.add_trailing_space
  /\ config.remove_capitalization

\* C13: a supplied recording_thread has been told to stop exactly when the
\* loop has finalized with exit_reason "Silence" (so never with "Hotkey
\* pressed"), at most once, and never while the loop is still running, a
\* discarded stop condition included.
C13_ThreadStoppedIffSilence ==
  /\ thread_stops <= 1
  /\ ~recording_thread => thread_stops = 0
  /\ recording_thread =>
       (thread_stops = 1 <=> (Finalized /\ exit_reason = "Silence"))
  /\ pc \in LoopPcs \cup {"start", "opened"} => thread_stops = 0

C13_Witness ==
  /\ recording_thread
  /\ thread_stops = 1
  /\ exit_reason = "Silence"
  /\ returned.done

\* the k-th frame removed from the buffer (ramp signal)
FrameOf(k) == SubSeq(consumed, (k - 1) * frame_size + 1, k * frame_size)

\* the first k classified frames with the non-speech ones left out
RECURSIVE SpeechFrames(_)
SpeechFrames(k) ==
  IF k = 0 THEN <<>>
  ELSE SpeechFrames(k - 1) \o (IF heard[k] THEN FrameOf(k) ELSE <<>>)

\* the array of line 86 has been built
ArrayBuilt ==
  \/ pc \in {"tmpfile", "wave", "transcribing", "dispatch", "remove", "print",
             "idle", "return"}
  \/ pc \in {"except", "done"} /\ temp_file # "none"
  \/ pc \in {"except", "done"} /\ fault_at \in {"tmpfile", "print"}

\* C14: recording is always the frames classified as speech so far, in the
\* order they arrived; classifying a speech frame appends that frame, every
\* other step (a non-speech frame, a waiting cycle) leaves recording as it
\* is, so its length never decreases; audio_data is recording as it was
\* when the loop finalized.
C14_RecordingIsSpeechFrames ==
  /\ [](signal = "ramp" => recording = SpeechFrames(Len(heard)))
  /\ [](ArrayBuilt => audio_data = recording)
  /\ [][/\ Len(recording') >= Len(recording)
        /\ IF pc = "rebind" /\ pc' = "stop" /\ is_speech'
           THEN recording' = recording \o frame /\ Len(frame) = frame_size
           ELSE recording' = recording]_vars

C14_Witness ==
  /\ signal = "ramp"
  /\ heard = <<TRUE, FALSE, TRUE>>
  /\ recording = <<1, 3>>
  /\ pc = "poll"

\* the number of non-speech frames at the end of the first k classifications
RECURSIVE TrailingNonSpeech(_)
TrailingNonSpeech(k) ==
  IF k = 0 \/ heard[k] THEN 0 ELSE 1 + TrailingNonSpeech(k - 1)

\* C15: once a speech frame has been recorded, num_silent_frames is the
\* number of non-speech frames consumed since the last speech frame; a
\* speech frame sets it to 0, and the stop check of lines 71-73 leaves it
\* as it is, also when it discards the stop condition.
C15_RunLengthSinceLastSpeech ==
  /\ [](signal = "ramp" /\ Len(recording) > 0 =>
          num_silent_frames = TrailingNonSpeech(Len(heard)))
  /\ [][/\ pc = "rebind" /\ pc' = "stop" /\ is_speech' =>
             num_silent_frames' = 0
        /\ pc = "stop" => num_silent_frames' = num_silent_frames]_vars

C15_Witness ==
  /\ signal = "ramp"
  /\ heard = <<TRUE, FALSE, FALSE>>
  /\ num_silence_frames = 1
  /\ num_silent_frames = 2
  /\ pc = "poll"

\* C16: below one second of recording the cancel flag has no effect.  Only
\* lines 71 and 74 read the flag, so two runs fed the same frames and the
\* same classifications stay equal as long as every stop check made below
\* one second goes back to polling with the recorder state as it was,
\* whatever cancel_flag() answered, and a change of the flag itself moves
\* nothing of the recorder.
C16_CancelIgnoredUnderMinimum ==
  [][/\ pc = "stop" /\ pc' # pc /\ Len(recording) < sample_rate =>
         /\ pc' = "poll"
         /\ UNCHANGED <<buffer, recording, num_silent_frames, exit_reason,
                        thread_stops>>
     /\ cancel' # cancel =>
         UNCHANGED <<pc, buffer, frame, rest, recording, num_silent_frames,
                     is_speech, exit_reason, thread_stops>>]_vars

C16_Witness ==
  /\ pc = "poll"
  /\ probes = <<TRUE>>
  /\ Len(recording) + frame_size = sample_rate
  /\ num_silent_frames < num_silence_frames

\* C17: whenever the loop has finalized, exit_reason is "Hotkey pressed" or
\* "Silence" and not the initial "Unknown", also when another thread
\* changes what cancel_flag() returns between line 71 and line 74.
C17_ReasonNeverUnknown ==
  Finalized => exit_reason \in {"Hotkey pressed", "Silence"}

\* C18: a session without a fault puts exactly "transcribing" then "idle"
\* on status_queue.  "transcribing" is put only once the loop has finalized,
\* the stream is closed and the WAV file is written, and before any
\* transcription call; "idle" only once the call has returned and the file
\* is removed; exactly one call, remote or local, is made in between.
C18_StatusOrder ==
  /\ fault_at = "none" =>
       status_queue \in {<<>>, <<"transcribing">>, <<"transcribing", "idle">>}
  /\ Count(status_queue, "transcribing") > 0 =>
       /\ Finalized
       /\ stream = "closed"
       /\ temp_file \in {"written", "removed"}
  /\ Count(status_queue, "transcribing") = 0 => dispatches = <<>>
  /\ Len(dispatches) <= 1
  /\ Count(status_queue, "idle") > 0 =>
       /\ Len(dispatches) = 1
       /\ temp_file = "removed"
  /\ returned.done /\ fault_at = "none" =>
       /\ status_queue = <<"transcribing", "idle">>
       /\ Len(dispatches) = 1

C18_Witness ==
  /\ returned.done
  /\ fault_at = "none"
  /\ status_queue = <<"transcribing", "idle">>
  /\ dispatches = <<"local">>
  /\ local_model = "created"

\* C19: with the steps of the function and the callback scheduled fairly,
\* cancel never asserted and no exception in the loop: once recording holds
\* at least one second and every frame consumed from then on is non-speech,
\* the loop finalizes with exit_reason "Silence", in the cycle that makes
\* the run of non-speech frames num_silence_frames long.
C19_SilenceEndsLoop ==
  ([](~cancel /\ fault_at # "rebind")
     /\ <>[](Len(recording) >= sample_rate /\ ~is_speech))
    => <>(/\ Finalized
          /\ exit_reason = "Silence"
          /\ num_silent_frames = num_silence_frames)

C19_Witness ==
  /\ pc = "closing"
  /\ ~cancel
  /\ NoProbeTrue
  /\ ~is_speech
  /\ num_silence_frames = 2
  /\ num_silent_frames = 2
  /\ Len(recording) = sample_rate
  /\ exit_reason = "Silence"

\* C20: a cycle that finds fewer than frame_size samples in the buffer
\* changes nothing of the consumer (buffer contents, recording,
\* num_silent_frames, exit_reason), classifies no frame and does not
\* finalize; a cycle that finds at least frame_size samples takes the
\* oldest frame_size samples as its frame, removes exactly those from the
\* buffer and classifies that frame.
C20_FrameEffect ==
  [][/\ pc = "poll" /\ Len(buffer) < frame_size =>
         /\ pc' = "poll"
         /\ buffer' \in {buffer, buffer \o Block}
         /\ UNCHANGED <<frame, recording, num_silent_frames, is_speech,
                        exit_reason, consumed, heard>>
     /\ pc = "poll" /\ pc' # pc =>
         /\ Len(buffer) >= frame_size
         /\ frame' = SubSeq(buffer, 1, frame_size)
     /\ pc = "rebind" /\ pc' = "stop" =>
         /\ frame \o buffer' = buffer
         /\ consumed' = Log(consumed, frame)]_vars

====
